---------------------------- MODULE Spec2Model ----------------------------
(***************************************************************************)
(* A model of createApp (packages/create-next-app/create-app.ts).          *)
(*                                                                         *)
(* createApp is one async function.  Every await is a suspension point, so *)
(* the model has one action per awaited collaborator call, together with   *)
(* the synchronous code that runs up to the next await.  The collaborators *)
(* (getRepoInfo, hasRepo, existsInRepo, isWriteable, makeDir,              *)
(* isFolderEmpty, getOnline, the two download functions, install,          *)
(* installTemplate, tryGitInit) are imported by create-app.ts; their       *)
(* results are inputs of the actions.  `calls' is the log of collaborator  *)
(* invocations in the order createApp makes them.                          *)
(***************************************************************************)
EXTENDS Integers, Sequences, FiniteSets, TLC

(***************************************************************************)
(* Bounds of the model.                                                    *)
(***************************************************************************)
\* the download function fails on its first 0..MaxFailsFirst invocations
MaxFailsFirst == 5

(***************************************************************************)
(* Values.                                                                 *)
(***************************************************************************)
\* JavaScript's undefined (an optional parameter not passed, no RepoInfo,
\* a thrown value without a message property)
Undefined == "undefined"

\* create-app.ts:93, the example name that skips existsInRepo
InternalTestingRetry == "__internal-testing-retry"

\* create-app.ts:63, the only origin accepted for a URL example
GitHubOrigin == "https://github.com"

\* the example strings of the requests that are explored
ExampleStrings ==
  { "https://github.com/acme/demo/tree/main/examples/foo",
    "https://notgithub.com/x/y",
    "http://github.com/acme/demo",
    "foo:bar",
    "github.com/acme/demo",
    "with-redux",
    InternalTestingRetry,
    "" }

PackageManagers == {"npm", "pnpm", "yarn"}

\* process.cwd() when createApp is entered
OriginalDirectory == "/cwd"

\* appPath as the caller passes it: relative to cwd, or absolute
AppPaths == {"my-app", "/cwd/my-app"}

\* values a download function rejects with: two Error objects and a thrown
\* string.  `message' is the value's message property, `string' is what
\* value + '' evaluates to.  All of them are truthy and none has a `bail'
\* property, the two kinds of value for which retry() stops at once.
FailureValues ==
  { [object |-> TRUE,  message |-> "ETIMEDOUT",  string |-> "Error: ETIMEDOUT"],
    [object |-> TRUE,  message |-> "ECONNRESET", string |-> "Error: ECONNRESET"],
    [object |-> FALSE, message |-> Undefined,    string |-> "aborted"] }

\* the files of the target directory the orchestrator looks at or writes
FileNames == {"package.json", ".gitignore", "tsconfig.json", "next-env.d.ts", "sources"}

\* a file that is not there
Absent == "absent"

VARIABLES
  request,        \* the argument of createApp
  fetchPlan,      \* environment: how the download function behaves
  pc,             \* position in createApp
  status,         \* "running", "exit" (process.exit), "threw", "done"
  exitCode,       \* argument of process.exit, 0 when the promise resolved
  thrown,         \* the error createApp rejected with
  repoInfo,       \* let repoInfo (line 46)
  isOnline,       \* const isOnline (line 131)
  hasPackageJson, \* let hasPackageJson (line 140)
  attempts,       \* invocations of the download function by retry()
  errors,         \* the values the download function rejected with
  dirCreated,     \* makeDir created root in this run
  cwd,            \* process.cwd()
  files,          \* file name -> where its content comes from, or Absent
  installed,      \* dependencies were installed into root
  gitInitialized, \* result of tryGitInit
  calls,          \* collaborator invocations, in order
  output          \* classes of message printed

vars == << request, fetchPlan, pc, status, exitCode, thrown, repoInfo, isOnline,
           hasPackageJson, attempts, errors, dirCreated, cwd, files, installed,
           gitInitialized, calls, output >>


(***************************************************************************)
(* Pure functions of the code.                                             *)
(***************************************************************************)
\* `if (example)' (lines 50, 142): undefined and '' are falsy
TruthyUnlessUndefined(str) == str # Undefined
Truthy(str) == str # Undefined /\ str # ""

\* `new URL(example)' followed by `.origin' (lines 53-63).  The result is
\* Undefined when the constructor throws ERR_INVALID_URL (no scheme), the
\* scheme://host of a special scheme, and "null" for an opaque origin.
URLOrigin(str) ==
  CASE str = "https://github.com/acme/demo/tree/main/examples/foo" -> "https://github.com"
    [] str = "https://notgithub.com/x/y"   -> "https://notgithub.com"
    [] str = "http://github.com/acme/demo" -> "http://github.com"
    [] str = "foo:bar"                     -> "null"
    [] OTHER                               -> Undefined

\* line 63, `repoUrl.origin !== 'https://github.com''
OriginRejectedHostOnly(origin) == origin \notin {GitHubOrigin, "http://github.com"}
OriginRejected(origin) == origin # GitHubOrigin

\* line 111, path.resolve(appPath) with process.cwd() = OriginalDirectory
Resolve(appPath) ==
  CASE appPath = "my-app"      -> "/cwd/my-app"
    [] appPath = "/cwd/my-app" -> "/cwd/my-app"
    [] OTHER                   -> appPath

\* line 113, path.dirname(root)
Dirname(path) ==
  CASE path = "/cwd/my-app" -> "/cwd"
    [] OTHER                -> path

\* line 123, path.basename(root)
Basename(path) ==
  CASE path = "/cwd/my-app" -> "my-app"
    [] OTHER                -> path

\* line 228, path.join(originalDirectory, appName)
Join(dir, name) ==
  CASE dir = "/cwd" /\ name = "my-app" -> "/cwd/my-app"
    [] OTHER                           -> dir

\* lines 227-232
Cdpath(appPath) ==
  LET appName == Basename(Resolve(appPath))
  IN  IF Join(OriginalDirectory, appName) = appPath THEN appName ELSE appPath

\* line 47
Mode(typescript) == IF typescript THEN "ts" ELSE "js"

\* line 48
Template(experimentalApp) == IF experimentalApp THEN "app" ELSE "default"

\* getTemplateFile({ template, mode, file }): the path of a template file
GetTemplateFile(template, mode, file) ==
  "templates/" \o template \o "/" \o mode \o "/" \o file

\* lines 155-157 and 165-167: the `retries' option of retry().  retry() runs
\* the function once and then again after each failure, up to `retries'
\* more times.
RetriesOnce == 3 - 2
RetriesOffByOne == 3 - 1
Retries == 3

\* retry(): the error the promise rejects with once the retries are used
\* up.  It is the operation's main error: the errors are scanned in order,
\* each counted by its message, and an error becomes the main error when
\* its count is at least the count of the current main error.
RECURSIVE MainErrorScan(_, _, _, _)
MainErrorScan(errs, i, main, mainCount) ==
  IF i > Len(errs) THEN main
  ELSE LET count == Cardinality({ j \in 1..i : errs[j].message = errs[i].message })
       IN  IF count >= mainCount
           THEN MainErrorScan(errs, i + 1, errs[i], count)
           ELSE MainErrorScan(errs, i + 1, main, mainCount)

MainErrorLast(errs) == errs[Len(errs)]
MainError(errs) == MainErrorScan(errs, 1, errs[1], 0)

\* lines 170-176
IsErrorLike(err) == err.object /\ err.message # Undefined

\* lines 177-179, the message of the DownloadError
DownloadErrorMessage(reason) ==
  IF IsErrorLike(reason) THEN reason.message ELSE reason.string

\* the download function fails on its n-th invocation
FetchFails(n) == fetchPlan.always \/ n <= fetchPlan.first

FetchPlans ==
  { [always |-> TRUE, first |-> 0] }
    \cup { [always |-> FALSE, first |-> k] : k \in 0..MaxFailsFirst }

Requests ==
  [ appPath : AppPaths,
    packageManager : PackageManagers,
    example : ExampleStrings \cup {Undefined},
    typescript : BOOLEAN,
    experimentalApp : BOOLEAN ]

\* the state when createApp is entered
Init ==
  /\ request \in Requests
  /\ fetchPlan \in FetchPlans
  /\ pc = "start"
  /\ status = "running"
  /\ exitCode = 0
  /\ thrown = [class |-> Undefined, message |-> Undefined]
  /\ repoInfo = Undefined
  /\ isOnline = FALSE
  /\ hasPackageJson = FALSE
  /\ attempts = 0
  /\ errors = << >>
  /\ dirCreated = FALSE
  /\ cwd = OriginalDirectory
  /\ files = [f \in FileNames |-> Absent]
  /\ installed = FALSE
  /\ gitInitialized = FALSE
  /\ calls = << >>
  /\ output = {}

\* process.exit(1) after console.error of one message class
Exit(message) ==
  /\ status' = "exit"
  /\ exitCode' = 1
  /\ pc' = "exited"
  /\ output' = output \cup {message}

\* createApp rejects with an error
Throw(class, message) ==
  /\ status' = "threw"
  /\ thrown' = [class |-> class, message |-> message]
  /\ pc' = "threw"

\* a boolean as the log shows it
Bool(b) == IF b THEN "true" ELSE "false"

\* the orchestrator calls a collaborator: the function, the argument that
\* tells the calls apart, and what the call returned
Call(fn, arg, result) ==
  calls' = Append(calls, [fn |-> fn, arg |-> arg, result |-> result])


\* the RepoInfo getRepoInfo returns for a GitHub URL it can take apart
SomeRepoInfo == "acme/demo#main:examples/foo"

\* the variables of the run's outcome
outcomeVars == << status, exitCode, thrown >>
\* the variables of the target directory
diskVars == << dirCreated, cwd, files, installed, gitInitialized >>
\* the variables of the retrying fetch
retryVars == << attempts, errors >>
\* the variables no action changes
envVars == << request, fetchPlan >>

(***************************************************************************)
(* Resolution, lines 50-109.                                               *)
(***************************************************************************)
\* line 93: the named example whose existence is not checked
SkipsExistsInRepoAlways(str) == TRUE
SkipsExistsInRepoNever(str) == FALSE
SkipsExistsInRepo(str) == str = InternalTestingRetry

\* lines 50-70 and the branches of lines 62 and 93
ParseExample ==
  /\ pc = "start"
  /\ LET example == request.example
         origin  == URLOrigin(example)
     IN  IF ~Truthy(example)
         THEN pc' = "isWriteable" /\ UNCHANGED << outcomeVars, output >>
         ELSE IF origin # Undefined
              THEN IF OriginRejected(origin)
                   THEN Exit("Invalid URL") /\ UNCHANGED thrown
                   ELSE pc' = "getRepoInfo" /\ UNCHANGED << outcomeVars, output >>
              ELSE IF ~SkipsExistsInRepo(example)
                   THEN pc' = "existsInRepo" /\ UNCHANGED << outcomeVars, output >>
                   ELSE pc' = "isWriteable" /\ UNCHANGED << outcomeVars, output >>
  /\ UNCHANGED << envVars, repoInfo, isOnline, hasPackageJson, retryVars,
                  diskVars, calls >>

\* lines 72-81
GetRepoInfo ==
  /\ pc = "getRepoInfo"
  /\ \E info \in {Undefined, SomeRepoInfo} :
       /\ Call("getRepoInfo", request.example, info)
       /\ repoInfo' = info
       /\ IF info = Undefined
          THEN Exit("Found invalid GitHub URL") /\ UNCHANGED thrown
          ELSE pc' = "hasRepo" /\ UNCHANGED << outcomeVars, output >>
  /\ UNCHANGED << envVars, isOnline, hasPackageJson, retryVars, diskVars >>

\* lines 83-92
HasRepo ==
  /\ pc = "hasRepo"
  /\ \E found \in BOOLEAN :
       /\ Call("hasRepo", repoInfo, Bool(found))
       /\ IF ~found
          THEN Exit("Could not locate the repository") /\ UNCHANGED thrown
          ELSE pc' = "isWriteable" /\ UNCHANGED << outcomeVars, output >>
  /\ UNCHANGED << envVars, repoInfo, isOnline, hasPackageJson, retryVars,
                  diskVars >>

\* lines 94-107
ExistsInRepoIgnored ==
  /\ pc = "existsInRepo"
  /\ \E found \in BOOLEAN :
       Call("existsInRepo", request.example, Bool(found))
  /\ pc' = "isWriteable"
  /\ UNCHANGED << envVars, outcomeVars, output, repoInfo, isOnline,
                  hasPackageJson, retryVars, diskVars >>
ExistsInRepo ==
  /\ pc = "existsInRepo"
  /\ \E found \in BOOLEAN :
       /\ Call("existsInRepo", request.example, Bool(found))
       /\ IF ~found
          THEN Exit("Could not locate an example") /\ UNCHANGED thrown
          ELSE pc' = "isWriteable" /\ UNCHANGED << outcomeVars, output >>
  /\ UNCHANGED << envVars, repoInfo, isOnline, hasPackageJson, retryVars,
                  diskVars >>

(***************************************************************************)
(* Validation and preparation of the directory, lines 111-140.             *)
(***************************************************************************)
\* lines 111-121
IsWriteable ==
  /\ pc = "isWriteable"
  /\ \E writeable \in BOOLEAN :
       /\ Call("isWriteable", Dirname(Resolve(request.appPath)), Bool(writeable))
       /\ IF ~writeable
          THEN Exit("The application path is not writable") /\ UNCHANGED thrown
          ELSE pc' = "makeDir" /\ UNCHANGED << outcomeVars, output >>
  /\ UNCHANGED << envVars, repoInfo, isOnline, hasPackageJson, retryVars,
                  diskVars >>

\* lines 123-125: makeDir creates root unless it is there already
MakeDir ==
  /\ pc = "makeDir"
  /\ Call("makeDir", Resolve(request.appPath), "void")
  /\ \E existed \in BOOLEAN : dirCreated' = ~existed
  /\ pc' = "isFolderEmpty"
  /\ UNCHANGED << envVars, outcomeVars, repoInfo, isOnline, hasPackageJson,
                  retryVars, cwd, files, installed, gitInitialized, output >>

\* lines 132-154, the synchronous code between the connectivity probe and
\* the first download or installTemplate
EnterDirectory(out) ==
  /\ cwd' = Resolve(request.appPath)
  /\ hasPackageJson' = FALSE
  /\ IF Truthy(request.example)
     THEN /\ pc' = "fetch"
          /\ output' = out \cup {"Creating a new Next.js app",
                                 IF repoInfo # Undefined
                                 THEN "Downloading files from repo"
                                 ELSE "Downloading files for example"}
     ELSE /\ pc' = "installTemplate"
          /\ output' = out \cup {"Creating a new Next.js app"}

\* line 126, `!isFolderEmpty(root, appName)'
FolderRejectedNever(empty) == FALSE
FolderRejected(empty) == ~empty

\* lines 126-131 (and 132-154 when the package manager is not yarn).
\* A directory makeDir has just created is empty; one that was there may
\* hold other files, or only files isFolderEmpty tolerates, of which
\* .gitignore is one the orchestrator looks at later.
IsFolderEmpty ==
  /\ pc = "isFolderEmpty"
  /\ \E empty \in BOOLEAN, ignoreFile \in BOOLEAN :
       /\ dirCreated => (empty /\ ~ignoreFile)
       /\ ~empty => ~ignoreFile
       /\ Call("isFolderEmpty", Resolve(request.appPath), Bool(empty))
       /\ IF FolderRejected(empty)
          THEN /\ Exit("The directory contains files that could conflict")
               /\ UNCHANGED << thrown, isOnline, hasPackageJson, cwd, files >>
          ELSE /\ files' = IF ignoreFile
                           THEN [files EXCEPT ![".gitignore"] = "pre-existing"]
                           ELSE files
               /\ UNCHANGED outcomeVars
               /\ IF request.packageManager = "yarn"
                  THEN /\ pc' = "getOnline"
                       /\ UNCHANGED << isOnline, hasPackageJson, cwd, output >>
                  ELSE /\ isOnline' = TRUE
                       /\ EnterDirectory(output)
  /\ UNCHANGED << envVars, repoInfo, retryVars, dirCreated, installed,
                  gitInitialized >>

\* line 131 with yarn, then lines 132-154
GetOnlineIgnored ==
  /\ pc = "getOnline"
  /\ \E online \in BOOLEAN :
       /\ Call("getOnline", "", Bool(online))
       /\ isOnline' = TRUE
  /\ EnterDirectory(output)
  /\ UNCHANGED << envVars, outcomeVars, repoInfo, retryVars, dirCreated, files,
                  installed, gitInitialized >>
GetOnline ==
  /\ pc = "getOnline"
  /\ \E online \in BOOLEAN :
       /\ Call("getOnline", "", Bool(online))
       /\ isOnline' = online
  /\ EnterDirectory(output)
  /\ UNCHANGED << envVars, outcomeVars, repoInfo, retryVars, dirCreated, files,
                  installed, gitInitialized >>


(***************************************************************************)
(* The retrying fetch, lines 146-180.                                      *)
(***************************************************************************)
\* lines 155 and 165: what the download function is called with besides root
FetchArgument == IF repoInfo # Undefined THEN repoInfo ELSE request.example

\* lines 147 and 158: the download function retry() is given
FetchFunctionAlwaysExample == "downloadAndExtractExample"
FetchFunctionFallback ==
  IF repoInfo # Undefined /\ attempts = 0 THEN "downloadAndExtractRepo"
                                           ELSE "downloadAndExtractExample"
FetchFunction ==
  IF repoInfo # Undefined THEN "downloadAndExtractRepo"
                          ELSE "downloadAndExtractExample"

\* the files of an example that the orchestrator looks at afterwards
ExampleOptionalFiles == {"package.json", ".gitignore", "tsconfig.json"}

\* one invocation of the download function by retry() that resolves
FetchSucceeds ==
  /\ pc = "fetch"
  /\ ~FetchFails(attempts + 1)
  /\ Call(FetchFunction, FetchArgument, "resolved")
  /\ attempts' = attempts + 1
  /\ \E extracted \in SUBSET ExampleOptionalFiles :
       files' = [f \in FileNames |->
                   IF f = "sources" \/ f \in extracted THEN "fetched" ELSE files[f]]
  /\ pc' = "normalize"
  /\ UNCHANGED << envVars, outcomeVars, repoInfo, isOnline, hasPackageJson,
                  errors, dirCreated, cwd, installed, gitInitialized, output >>

\* one invocation that rejects while retries are left: retry() records the
\* error and schedules the next invocation
FetchFailsRetryUnbounded ==
  /\ pc = "fetch"
  /\ FetchFails(attempts + 1)
  /\ Call(FetchFunction, FetchArgument, "rejected")
  /\ attempts' = attempts + 1
  /\ \E reason \in FailureValues, partial \in BOOLEAN :
       /\ errors' = << reason >>
       /\ files' = IF partial THEN [files EXCEPT !["sources"] = "partial"] ELSE files
  /\ UNCHANGED << envVars, outcomeVars, pc, repoInfo, isOnline, hasPackageJson,
                  dirCreated, cwd, installed, gitInitialized, output >>
FetchFailsRetry ==
  /\ pc = "fetch"
  /\ FetchFails(attempts + 1)
  /\ Len(errors) < Retries
  /\ Call(FetchFunction, FetchArgument, "rejected")
  /\ attempts' = attempts + 1
  /\ \E reason \in FailureValues, partial \in BOOLEAN :
       /\ errors' = Append(errors, reason)
       /\ files' = IF partial THEN [files EXCEPT !["sources"] = "partial"] ELSE files
  /\ UNCHANGED << envVars, outcomeVars, pc, repoInfo, isOnline, hasPackageJson,
                  dirCreated, cwd, installed, gitInitialized, output >>

\* one invocation that rejects when no retry is left: retry() rejects with
\* the main error, and the catch block (lines 169-180) throws DownloadError
FetchFailsGiveUp ==
  /\ pc = "fetch"
  /\ FetchFails(attempts + 1)
  /\ Len(errors) >= Retries
  /\ Call(FetchFunction, FetchArgument, "rejected")
  /\ attempts' = attempts + 1
  /\ \E reason \in FailureValues, partial \in BOOLEAN :
       /\ errors' = Append(errors, reason)
       /\ files' = IF partial THEN [files EXCEPT !["sources"] = "partial"] ELSE files
       /\ Throw("DownloadError", DownloadErrorMessage(MainError(errors')))
  /\ UNCHANGED << envVars, exitCode, repoInfo, isOnline, hasPackageJson,
                  dirCreated, cwd, installed, gitInitialized, output >>

(***************************************************************************)
(* Normalization and install on the example path, lines 181-206.           *)
(***************************************************************************)
\* fs.existsSync(path.join(root, name))
ExistsSync(fs, name) == fs[name] # Absent

\* line 199
PackageJsonIgnored(fs) == FALSE
PackageJsonAssumed(fs) == TRUE
PackageJsonFound(fs) == ExistsSync(fs, "package.json")

\* lines 184 and 193, fs.copyFileSync to a file of root
CopyFileSync(name) == [fn |-> "copyFileSync", arg |-> name, result |-> "void"]

\* line 183, `!fs.existsSync(ignorePath)'
CopiesGitignoreAlways(fs) == TRUE
CopiesGitignore(fs) == ~ExistsSync(fs, ".gitignore")

\* line 194, the template file next-env.d.ts is copied from
NextEnvSourceRequested(template, mode) ==
  GetTemplateFile(template, mode, "next-env.d.ts")
NextEnvSource(template, mode) == GetTemplateFile(template, "ts", "next-env.d.ts")

\* lines 181-203
Normalize ==
  /\ pc = "normalize"
  /\ LET template == Template(request.experimentalApp)
         mode     == Mode(request.typescript)
         copyIgnore == CopiesGitignore(files)
         copyEnv    == ExistsSync(files, "tsconfig.json")
         fs1 == IF copyIgnore
                THEN [files EXCEPT ![".gitignore"] =
                        GetTemplateFile(template, mode, "gitignore")]
                ELSE files
         fs2 == IF copyEnv
                THEN [fs1 EXCEPT !["next-env.d.ts"] = NextEnvSource(template, mode)]
                ELSE fs1
     IN  /\ files' = fs2
         /\ calls' = calls
                       \o (IF copyIgnore THEN << CopyFileSync(".gitignore") >> ELSE << >>)
                       \o (IF copyEnv THEN << CopyFileSync("next-env.d.ts") >> ELSE << >>)
         /\ hasPackageJson' = PackageJsonFound(fs2)
         /\ IF hasPackageJson'
            THEN pc' = "install" /\ output' = output \cup {"Installing packages"}
            ELSE pc' = "tryGitInit" /\ UNCHANGED output
  /\ UNCHANGED << envVars, outcomeVars, repoInfo, isOnline, retryVars,
                  dirCreated, cwd, installed, gitInitialized >>

\* lines 204-205
InstallSwallowed ==
  /\ pc = "install"
  /\ \E ok \in BOOLEAN :
       /\ Call("install", Bool(isOnline), IF ok THEN "void" ELSE "throws")
       /\ installed' = ok
  /\ pc' = "tryGitInit"
  /\ UNCHANGED << envVars, outcomeVars, repoInfo, isOnline, hasPackageJson,
                  retryVars, dirCreated, cwd, files, gitInitialized, output >>
Install ==
  /\ pc = "install"
  /\ \E ok \in BOOLEAN :
       /\ Call("install", Bool(isOnline), IF ok THEN "void" ELSE "throws")
       /\ IF ok
          THEN installed' = TRUE /\ pc' = "tryGitInit" /\ UNCHANGED outcomeVars
          ELSE Throw("Error", "install failed") /\ UNCHANGED << installed, exitCode >>
  /\ UNCHANGED << envVars, repoInfo, isOnline, hasPackageJson, retryVars,
                  dirCreated, cwd, files, gitInitialized, output >>

(***************************************************************************)
(* The template path, lines 207-220.                                       *)
(***************************************************************************)
\* what installTemplate leaves in root when it resolves: the template's
\* files, a package.json it writes, and the installed dependencies
TemplateFiles(template, mode) ==
  [f \in FileNames |->
     CASE f = "package.json"  -> "installTemplate"
       [] f = ".gitignore"    -> GetTemplateFile(template, mode, "gitignore")
       [] f = "sources"       -> "templates/" \o template \o "/" \o mode
       [] f \in {"tsconfig.json", "next-env.d.ts"} ->
            IF mode = "ts" THEN "templates/" \o template \o "/" \o mode ELSE files[f]]

\* lines 212-219
InstallTemplate ==
  /\ pc = "installTemplate"
  /\ \E ok \in BOOLEAN :
       /\ Call("installTemplate", Bool(isOnline), IF ok THEN "void" ELSE "throws")
       /\ IF ok
          THEN /\ files' = TemplateFiles(Template(request.experimentalApp),
                                         Mode(request.typescript))
               /\ installed' = TRUE
               /\ pc' = "tryGitInit"
               /\ UNCHANGED outcomeVars
          ELSE /\ \E partial \in BOOLEAN :
                    files' = IF partial
                             THEN [files EXCEPT !["package.json"] = "installTemplate"]
                             ELSE files
               /\ Throw("Error", "installTemplate failed")
               /\ UNCHANGED << installed, exitCode >>
  /\ UNCHANGED << envVars, repoInfo, isOnline, hasPackageJson, retryVars,
                  dirCreated, cwd, gitInitialized, output >>

(***************************************************************************)
(* Version control and the report, lines 222-255.                          *)
(***************************************************************************)
\* lines 222-225
TryGitInitFatal ==
  /\ pc = "tryGitInit"
  /\ \E initialized \in BOOLEAN :
       /\ Call("tryGitInit", Resolve(request.appPath), Bool(initialized))
       /\ gitInitialized' = initialized
       /\ IF initialized
          THEN /\ output' = output \cup {"Initialized a git repository"}
               /\ pc' = "report"
               /\ UNCHANGED outcomeVars
          ELSE /\ Throw("Error", "git init failed")
               /\ UNCHANGED << exitCode, output >>
  /\ UNCHANGED << envVars, repoInfo, isOnline, hasPackageJson,
                  retryVars, dirCreated, cwd, files, installed >>
TryGitInit ==
  /\ pc = "tryGitInit"
  /\ \E initialized \in BOOLEAN :
       /\ Call("tryGitInit", Resolve(request.appPath), Bool(initialized))
       /\ gitInitialized' = initialized
       /\ output' = IF initialized
                    THEN output \cup {"Initialized a git repository"}
                    ELSE output
  /\ pc' = "report"
  /\ UNCHANGED << envVars, outcomeVars, repoInfo, isOnline, hasPackageJson,
                  retryVars, dirCreated, cwd, files, installed >>

\* line 236: the report holds the run instructions
RunInstructions(flag) == flag

\* lines 227-255; createApp's promise resolves
Report ==
  /\ pc = "report"
  /\ output' = output \cup {"Success"}
                 \cup (IF RunInstructions(hasPackageJson)
                       THEN {"Inside that directory, you can run several commands",
                             "cd " \o Cdpath(request.appPath)}
                       ELSE {})
  /\ status' = "done"
  /\ pc' = "done"
  /\ UNCHANGED << envVars, exitCode, thrown, repoInfo, isOnline, hasPackageJson,
                  retryVars, diskVars, calls >>

Next ==
  \/ ParseExample
  \/ GetRepoInfo
  \/ HasRepo
  \/ ExistsInRepo
  \/ IsWriteable
  \/ MakeDir
  \/ IsFolderEmpty
  \/ GetOnline
  \/ FetchSucceeds
  \/ FetchFailsRetry
  \/ FetchFailsGiveUp
  \/ Normalize
  \/ Install
  \/ InstallTemplate
  \/ TryGitInit
  \/ Report

Spec == Init /\ [][Next]_vars

\* every collaborator call settles and its continuation is then run
FairSpec == Spec /\ WF_vars(Next)


(***************************************************************************)
(* Vocabulary of the properties.                                           *)
(***************************************************************************)
\* the positions of the calls of one function in the log
Calls(fn) == { i \in 1..Len(calls) : calls[i].fn = fn }
Count(fn) == Cardinality(Calls(fn))
Called(fn) == Calls(fn) # {}

FetchFunctions == {"downloadAndExtractRepo", "downloadAndExtractExample"}
ResolutionChecks == {"getRepoInfo", "hasRepo", "existsInRepo"}

\* the positions of the calls of the download functions
Fetches == { i \in 1..Len(calls) : calls[i].fn \in FetchFunctions }

\* the request names an example (line 50)
ExampleGiven == request.example \notin {Undefined, ""}

\* the run is over
Terminal == status # "running"

\* the positions of createApp after the retrying fetch has resolved
AfterFetch == {"normalize", "install", "tryGitInit", "report", "done"}

\* createApp rejected with a DownloadError
DownloadFailed == status = "threw" /\ thrown.class = "DownloadError"

(***************************************************************************)
(* C1.  With an example given, when the download function fails on its     *)
(* first two invocations and succeeds on the third, the retrying fetch     *)
(* succeeds: the download function has been invoked exactly 3 times, no    *)
(* DownloadError is raised and the run goes on to normalization.           *)
(***************************************************************************)
FailsTwiceThenSucceeds == ~fetchPlan.always /\ fetchPlan.first = 2

C1_FailTwiceThenSucceed ==
  (ExampleGiven /\ FailsTwiceThenSucceeds /\ attempts > 0) =>
     /\ ~DownloadFailed
     /\ Cardinality(Fetches) = attempts
     /\ pc = "fetch" => attempts < 3
     /\ pc # "fetch" =>
          /\ attempts = 3
          /\ \A i \in Fetches :
               calls[i].result = (IF i = Len(calls) \/ calls[i + 1].fn \notin FetchFunctions
                                  THEN "resolved" ELSE "rejected")
          /\ pc \in AfterFetch \/ (status = "threw" /\ Called("install"))

C1_Witness ==
  /\ ExampleGiven /\ FailsTwiceThenSucceeds
  /\ pc = "normalize" /\ attempts = 3 /\ Len(errors) = 2

(***************************************************************************)
(* C2.  As claimed: when the download function fails on every invocation,  *)
(* the retrying fetch gives up after exactly 3 invocations, never a 4th.   *)
(***************************************************************************)
C2_GiveUpAfterThree ==
  (ExampleGiven /\ fetchPlan.always) =>
     /\ attempts <= 3
     /\ DownloadFailed => attempts = 3

(***************************************************************************)
(* C2, amended.  When the download function fails on every invocation,     *)
(* the retrying fetch gives up after exactly 4 invocations (the first one  *)
(* and 3 retries), never a 5th, with either download function.             *)
(***************************************************************************)
C2_GiveUpAfterFour ==
  (ExampleGiven /\ fetchPlan.always) =>
     /\ attempts <= 4
     /\ Cardinality(Fetches) = attempts
     /\ \A i \in Fetches : calls[i].fn = FetchFunction /\ calls[i].result = "rejected"
     /\ pc = "fetch" => attempts < 4
     /\ attempts = 4 => DownloadFailed
     /\ DownloadFailed => attempts = 4
     /\ pc \notin AfterFetch

C2_Witness ==
  /\ ExampleGiven /\ fetchPlan.always
  /\ DownloadFailed /\ attempts = 4
  /\ Count("downloadAndExtractRepo") = 4


(***************************************************************************)
(* C3.  As claimed: when the retrying fetch fails after its last attempt,  *)
(* createApp raises a DownloadError whose message is the message of the    *)
(* last failure of the download function (the string coercion of the       *)
(* failure value when it has no string message), and nothing of            *)
(* installTemplate, normalization, install, tryGitInit or the success      *)
(* report is performed.                                                    *)
(***************************************************************************)
\* the message the catch block derives from a failure value
MessageOf(err) ==
  IF err.object /\ err.message # Undefined THEN err.message ELSE err.string

NothingAfterFetch ==
  /\ \A i \in 1..Len(calls) :
       calls[i].fn \notin {"installTemplate", "copyFileSync", "install", "tryGitInit"}
  /\ "Success" \notin output
  /\ ~installed /\ ~gitInitialized /\ ~hasPackageJson

C3_MessageOfLastFailure ==
  DownloadFailed =>
     /\ thrown.message = MessageOf(errors[Len(errors)])
     /\ NothingAfterFetch

(***************************************************************************)
(* C3, amended.  When the retrying fetch fails after its last attempt,     *)
(* createApp raises a DownloadError whose message is the message of the    *)
(* failure that occurred most often among the attempts, the latest such    *)
(* failure when several occurred equally often (the string coercion of     *)
(* that failure value when it has no string message); the failure is       *)
(* propagated and nothing of installTemplate, normalization, install,      *)
(* tryGitInit or the success report is performed.                          *)
(***************************************************************************)
\* how often the message of the i-th failure occurred
Occurrences(i) ==
  Cardinality({ j \in 1..Len(errors) : errors[j].message = errors[i].message })

\* the latest failure among those whose message occurred most often
MostFrequentFailure ==
  LET most == { i \in 1..Len(errors) :
                  \A j \in 1..Len(errors) : Occurrences(j) <= Occurrences(i) }
      last == CHOOSE i \in most : \A j \in most : j <= i
  IN  errors[last]

C3_MessageOfMostFrequentFailure ==
  DownloadFailed =>
     /\ Len(errors) = attempts
     /\ thrown.message = MessageOf(MostFrequentFailure)
     /\ NothingAfterFetch
     /\ pc = "threw"

\* the failures were A, A, B, C: the DownloadError carries A's message
C3_Witness ==
  /\ DownloadFailed
  /\ Len(errors) = 4
  /\ errors[1] = errors[2]
  /\ errors[3] # errors[1] /\ errors[4] # errors[1] /\ errors[3] # errors[4]
  /\ thrown.message = MessageOf(errors[1])

(***************************************************************************)
(* C4.  For an example that parses as a URL whose origin is not            *)
(* https://github.com, createApp exits non-zero before any filesystem      *)
(* mutation: no collaborator (existence check, makeDir, fetch, copy,       *)
(* install, git init) is invoked and process.chdir is not called.          *)
(***************************************************************************)
ForeignURL ==
  /\ ExampleGiven
  /\ URLOrigin(request.example) \notin {Undefined, "https://github.com"}

C4_ForeignURLExitsFirst ==
  ForeignURL =>
     /\ calls = << >>
     /\ ~dirCreated /\ cwd = OriginalDirectory
     /\ \A f \in FileNames : files[f] = Absent
     /\ ~installed /\ ~gitInitialized
     /\ pc \in {"start", "exited"}
     /\ pc = "exited" => (status = "exit" /\ exitCode # 0 /\ output = {"Invalid URL"})

C4_Witness ==
  /\ request.example = "http://github.com/acme/demo"
  /\ status = "exit" /\ exitCode = 1 /\ calls = << >>

(***************************************************************************)
(* C5.  As claimed: the stages occur in the order validate, resolve,       *)
(* prepare directory, fetch-or-materialize, normalize, install, init       *)
(* version control, report; an unwritable target path is reported without  *)
(* any existence check having been made.                                   *)
(***************************************************************************)
PrepareCalls == {"makeDir", "isFolderEmpty", "getOnline"}
ProduceCalls == FetchFunctions \cup {"installTemplate"}

\* the stage of a collaborator call, validation first
StageValidateFirst(fn) ==
  CASE fn = "isWriteable"      -> 1
    [] fn \in ResolutionChecks -> 2
    [] fn \in PrepareCalls     -> 3
    [] fn \in ProduceCalls     -> 4
    [] fn = "copyFileSync"     -> 5
    [] fn = "install"          -> 6
    [] fn = "tryGitInit"       -> 7

\* the stage of a collaborator call, resolution first
StageResolveFirst(fn) ==
  CASE fn \in ResolutionChecks -> 1
    [] fn = "isWriteable"      -> 2
    [] fn \in PrepareCalls     -> 3
    [] fn \in ProduceCalls     -> 4
    [] fn = "copyFileSync"     -> 5
    [] fn = "install"          -> 6
    [] fn = "tryGitInit"       -> 7

Unwritable ==
  \E i \in Calls("isWriteable") : calls[i].result = "false"

ExistenceConfirmed ==
  IF URLOrigin(request.example) # Undefined
  THEN /\ \E i \in Calls("getRepoInfo") : calls[i].result # Undefined
       /\ \E i \in Calls("hasRepo") : calls[i].result = "true"
  ELSE request.example # "__internal-testing-retry" =>
         \E i \in Calls("existsInRepo") : calls[i].result = "true"

FoundNotEmpty ==
  \E i \in Calls("isFolderEmpty") : calls[i].result = "false"

C6_EmptyBeforeProducing ==
  /\ \A k \in 1..Len(calls) :
       calls[k].fn \in ProduceCalls =>
         \E a, b, c \in 1..k :
           /\ a < b /\ b < c /\ c < k
           /\ calls[a].fn = "isWriteable" /\ calls[a].result = "true"
           /\ calls[b].fn = "makeDir" /\ calls[b].result = "void"
           /\ calls[c].fn = "isFolderEmpty" /\ calls[c].result = "true"
  /\ FoundNotEmpty =>
       /\ status = "exit" /\ exitCode # 0
       /\ \A k \in 1..Len(calls) :
            calls[k].fn \notin ProduceCalls \cup {"copyFileSync", "install", "tryGitInit"}
       /\ \A f \in FileNames : files[f] = Absent

C6_Witness ==
  /\ FoundNotEmpty
  /\ status = "exit"
  /\ calls[Len(calls)].fn = "isFolderEmpty"

(***************************************************************************)
(* C7.  As claimed: in every terminal state of createApp the target        *)
(* directory is either not created or written by the run, or fully         *)
(* initialized (files fetched or materialized, normalization applied,      *)
(* dependencies installed when a manifest exists).                         *)
(***************************************************************************)
\* the run created the directory or wrote a file into it
Touched ==
  \/ dirCreated
  \/ \E f \in FileNames : files[f] \notin {Absent, "pre-existing"}

FullyInitialized ==
  /\ files["sources"] \notin {Absent, "partial"}
  /\ files[".gitignore"] # Absent
  /\ files["tsconfig.json"] # Absent => files["next-env.d.ts"] # Absent
  /\ files["package.json"] # Absent => installed

C7_NeverHalfInitialized ==
  Terminal => (~Touched \/ FullyInitialized)

(***************************************************************************)
(* C7, amended.  In every terminal state reached by success or by a fatal  *)
(* validation, resolution or emptiness failure the target directory is     *)
(* either not created or written by the run (every such failure) or fully  *)
(* initialized (success); only a failure of the fetch, of installTemplate  *)
(* or of install leaves a directory the run created or partly wrote, and   *)
(* nothing is rolled back then.                                            *)
(***************************************************************************)
C7_HalfInitializedOnlyAfterThrow ==
  /\ status = "exit" => ~Touched
  /\ status = "done" => (Touched /\ FullyInitialized)
  /\ (Terminal /\ Touched /\ ~FullyInitialized) =>
        /\ status = "threw"
        /\ cwd = "/cwd/my-app"
        /\ calls[Len(calls)].fn \in ProduceCalls \cup {"install"}
        /\ calls[Len(calls)].result \in {"rejected", "throws"}

\* a DownloadError leaves a directory the run created, partly written
C7_Witness ==
  /\ DownloadFailed
  /\ dirCreated
  /\ files["sources"] = "partial"

(***************************************************************************)
(* C8.  On the example path, after a successful fetch and normalization,   *)
(* install is invoked if and only if package.json exists in the target     *)
(* directory at that point (hasPackageJson is exactly that existence); it  *)
(* is invoked at most once per run and never before the fetch has          *)
(* succeeded.                                                              *)
(***************************************************************************)
\* the positions of createApp after the install step of the example path
AfterInstall == {"tryGitInit", "report", "done"}

C8_InstallIffPackageJson ==
  ExampleGiven =>
     /\ Count("install") <= 1
     /\ \A k \in Calls("install") :
          \E i \in Fetches : i < k /\ calls[i].result = "resolved"
     /\ pc \in {"install"} \cup AfterInstall =>
          (hasPackageJson <=> files["package.json"] # Absent)
     /\ pc \in AfterInstall =>
          (Called("install") <=> files["package.json"] # Absent)
     /\ Called("install") => files["package.json"] # Absent
     /\ pc = "install" => ~Called("install")

C8_Witness ==
  /\ ExampleGiven
  /\ pc = "tryGitInit"
  /\ files["package.json"] = Absent
  /\ ~Called("install")
  /\ Called("copyFileSync")

(***************************************************************************)
(* C9.  For every run that reaches the report, on the example path and on  *)
(* the template path alike, hasPackageJson is true exactly when a          *)
(* package.json was produced in the target directory by the run, and the   *)
(* report includes the run instructions and the cd suggestion if and only  *)
(* if that manifest is present.                                            *)
(***************************************************************************)
ManifestProduced == files["package.json"] \notin {Absent, "pre-existing"}

ReportHasInstructions ==
  /\ "Inside that directory, you can run several commands" \in output
  /\ \E path \in {"my-app", "/cwd/my-app"} : ("cd " \o path) \in output

C9_FlagIffManifest ==
  pc \in {"report", "done"} =>
     /\ hasPackageJson <=> ManifestProduced
     /\ pc = "done" => (ReportHasInstructions <=> ManifestProduced)

(***************************************************************************)
(* C10.  When the request has no example, only the template path is        *)
(* taken: no resolution check, no download function, no normalization      *)
(* copy and no install call of the orchestrator is ever invoked, and       *)
(* installTemplate is invoked exactly once by a run that gets to           *)
(* materialize (at most once by any run); when an example is given         *)
(* installTemplate is never invoked.                                       *)
(***************************************************************************)
C10_TemplatePathExclusive ==
  /\ ~ExampleGiven =>
       /\ \A k \in 1..Len(calls) :
            calls[k].fn \notin ResolutionChecks \cup FetchFunctions
                                 \cup {"copyFileSync", "install"}
       /\ attempts = 0
       /\ Count("installTemplate") <= 1
       /\ (pc \in {"tryGitInit", "report", "done"} \/ status = "threw") =>
             Count("installTemplate") = 1
       /\ pc \notin {"getRepoInfo", "hasRepo", "existsInRepo", "fetch",
                     "normalize", "install"}
  /\ ExampleGiven => ~Called("installTemplate") /\ pc # "installTemplate"

C10_Witness ==
  /\ request.example = ""
  /\ status = "done"
  /\ Count("installTemplate") = 1
  /\ Len(calls) >= 5


(***************************************************************************)
(* C11.  The two fetch strategies exclude each other within a run:         *)
(* downloadAndExtractRepo is invoked only when the example parsed as a     *)
(* GitHub URL and a RepoInfo was resolved and found to exist,              *)
(* downloadAndExtractExample only when the example did not parse as a      *)
(* URL, and no run, over all its retry attempts, invokes both.             *)
(***************************************************************************)
\* before the k-th call, getRepoInfo returned a RepoInfo and hasRepo true
RepoResolvedBefore(k) ==
  \E a, b \in 1..k :
    /\ a < b /\ b < k
    /\ calls[a].fn = "getRepoInfo" /\ calls[a].result # Undefined
    /\ calls[b].fn = "hasRepo" /\ calls[b].arg = calls[a].result
    /\ calls[b].result = "true"

C11_StrategiesExclusive ==
  /\ \A k \in Calls("downloadAndExtractRepo") :
       /\ URLOrigin(request.example) = "https://github.com"
       /\ RepoResolvedBefore(k)
       /\ calls[k].arg = repoInfo
  /\ \A k \in Calls("downloadAndExtractExample") :
       /\ ExampleGiven
       /\ URLOrigin(request.example) = Undefined
       /\ repoInfo = Undefined
       /\ calls[k].arg = request.example
  /\ ~(Called("downloadAndExtractRepo") /\ Called("downloadAndExtractExample"))

\* a repo fetch that was retried to the end
C11_Witness ==
  /\ Count("downloadAndExtractRepo") = 4
  /\ ~Called("downloadAndExtractExample")
  /\ DownloadFailed

(***************************************************************************)
(* C12.  Resolution is never retried: each of getRepoInfo, hasRepo and     *)
(* existsInRepo is invoked at most once in a run, also when the fetch is   *)
(* retried; a negative result (getRepoInfo returning nothing, hasRepo or   *)
(* existsInRepo returning false) ends the run with a non-zero exit, with   *)
(* no directory created, no fetch attempted and no further check made.     *)
(***************************************************************************)
\* the positions of the resolution checks that came back negative
NegativeChecks ==
  { i \in 1..Len(calls) :
      /\ calls[i].fn \in ResolutionChecks
      /\ calls[i].result \in {"false", Undefined} }

C12_ResolutionNotRetried ==
  /\ \A fn \in ResolutionChecks : Count(fn) <= 1
  /\ ~(Called("hasRepo") /\ Called("existsInRepo"))
  /\ \A i \in NegativeChecks :
       /\ i = Len(calls)
       /\ status = "exit" /\ exitCode # 0
       /\ ~dirCreated /\ cwd = OriginalDirectory
       /\ attempts = 0
       /\ \A f \in FileNames : files[f] = Absent

\* the fetch was retried and the existence check was made once
C12_RetriedFetchReached ==
  /\ attempts = 4
  /\ Count("existsInRepo") = 1
  /\ Count("downloadAndExtractExample") = 4

\* a negative existence check ended the run
C12_Witness ==
  /\ NegativeChecks # {}
  /\ status = "exit"

(***************************************************************************)
(* C13.  Version-control initialization is best-effort: a run that         *)
(* completes fetch-or-materialize (and install, when it runs) without      *)
(* error invokes tryGitInit exactly once, and whether it returns true or   *)
(* false the run goes on to the report and completes successfully; a       *)
(* false result raises no error and changes nothing but the omission of    *)
(* the 'Initialized a git repository' message.                             *)
(***************************************************************************)
\* what a successful run prints apart from the message about git
ReportedWithoutGit ==
  {"Creating a new Next.js app", "Success"}
    \cup (IF ~ExampleGiven THEN {}
          ELSE IF repoInfo # Undefined THEN {"Downloading files from repo"}
          ELSE {"Downloading files for example"})
    \cup (IF hasPackageJson
          THEN {"Installing packages",
                "Inside that directory, you can run several commands",
                "cd my-app"}
          ELSE {})

C13_GitInitBestEffort ==
  /\ Count("tryGitInit") <= 1
  /\ pc = "tryGitInit" => (status = "running" /\ ~Called("tryGitInit"))
  /\ pc \in {"report", "done"} => Count("tryGitInit") = 1
  /\ Called("tryGitInit") =>
       /\ calls[Len(calls)].fn = "tryGitInit"
       /\ calls[Len(calls)].result = Bool(gitInitialized)
       /\ pc \in {"report", "done"}
       /\ status \in {"running", "done"}
       /\ thrown.class = Undefined /\ exitCode = 0
       /\ ("Initialized a git repository" \in output) <=> gitInitialized
  /\ status = "done" =>
       output \ {"Initialized a git repository"} = ReportedWithoutGit
  /\ ~Called("tryGitInit") => ~gitInitialized

\* tryGitInit returned false and the run completed
C13_Witness ==
  /\ status = "done"
  /\ \E i \in Calls("tryGitInit") : calls[i].result = "false"
  /\ "Success" \in output
  /\ "Initialized a git repository" \notin output

(***************************************************************************)
(* C14.  A failure of install on the example path is fatal: the error      *)
(* propagates out of createApp, tryGitInit is never invoked, the success   *)
(* report is never emitted, install is not retried, and the files already  *)
(* fetched and normalized remain in the target directory.                  *)
(***************************************************************************)
InstallThrew ==
  \E i \in Calls("install") : calls[i].result = "throws"

C14_InstallFailureFatal ==
  InstallThrew =>
     /\ status = "threw" /\ pc = "threw"
     /\ thrown = [class |-> "Error", message |-> "install failed"]
     /\ Count("install") = 1
     /\ calls[Len(calls)].fn = "install"
     /\ ~Called("tryGitInit") /\ ~gitInitialized
     /\ "Success" \notin output
     /\ ~installed
     /\ files["sources"] = "fetched"
     /\ files["package.json"] # Absent
     /\ files[".gitignore"] # Absent
     /\ files["tsconfig.json"] # Absent => files["next-env.d.ts"] # Absent
     /\ cwd = "/cwd/my-app"

C14_Witness ==
  /\ InstallThrew
  /\ status = "threw"
  /\ files["sources"] = "fetched"
  /\ Called("copyFileSync")

(***************************************************************************)
(* C15.  Every run of createApp terminates and visits each stage at most   *)
(* once: whatever the collaborators return, the run reaches done (after    *)
(* the report) or an aborted terminal state after a bounded number of      *)
(* steps, and no step goes back to an earlier position; only the fetch     *)
(* stays where it is, while it retries.                                    *)
(***************************************************************************)
\* the positions of createApp in the order of the code
Position(p) ==
  CASE p = "start"           -> 0
    [] p = "getRepoInfo"     -> 1
    [] p = "hasRepo"         -> 2
    [] p = "existsInRepo"    -> 2
    [] p = "isWriteable"     -> 3
    [] p = "makeDir"         -> 4
    [] p = "isFolderEmpty"   -> 5
    [] p = "getOnline"       -> 6
    [] p = "fetch"           -> 7
    [] p = "installTemplate" -> 7
    [] p = "normalize"       -> 8
    [] p = "install"         -> 9
    [] p = "tryGitInit"      -> 10
    [] p = "report"          -> 11
    [] p \in {"done", "exited", "threw"} -> 12

C15_Terminates ==
  /\ <>Terminal
  /\ [][ /\ status = "running"
         /\ \/ Position(pc') > Position(pc)
            \/ pc = "fetch" /\ pc' = "fetch" /\ attempts' = attempts + 1
         /\ Terminal' <=> pc' \in {"done", "exited", "threw"} ]_vars
  /\ [](Len(calls) <= 14 /\ attempts <= 4)

\* the longest run has completed: two resolution checks, isWriteable,
\* makeDir, isFolderEmpty, getOnline, four downloads, two copies, install
\* and tryGitInit
C15_Witness ==
  /\ status = "done"
  /\ Len(calls) = 14
  /\ attempts = 4

(***************************************************************************)
(* C16.  After a successful example fetch the .gitignore normalization is  *)
(* a no-op when a .gitignore already exists in the target directory (the   *)
(* file is left as it is), and otherwise exactly one default .gitignore    *)
(* is copied in from the template files; it never runs before the fetch    *)
(* succeeds, after a failed fetch, or on the template path.                *)
(***************************************************************************)
\* the positions in a log of the copies to a file of root
CopiesTo(log, name) ==
  { i \in 1..Len(log) : log[i].fn = "copyFileSync" /\ log[i].arg = name }

\* the default .gitignore of the request's template
DefaultGitignore ==
  "templates/" \o (IF request.experimentalApp THEN "app" ELSE "default")
     \o "/" \o (IF request.typescript THEN "ts" ELSE "js") \o "/gitignore"

C16_GitignoreNormalization ==
  /\ [][ IF pc = "normalize"
         THEN IF files[".gitignore"] # Absent
              THEN /\ files'[".gitignore"] = files[".gitignore"]
                   /\ CopiesTo(calls', ".gitignore") = {}
              ELSE /\ files'[".gitignore"] = DefaultGitignore
                   /\ Cardinality(CopiesTo(calls', ".gitignore")) = 1
         ELSE CopiesTo(calls', ".gitignore") = CopiesTo(calls, ".gitignore") ]_vars
  /\ [](\A k \in CopiesTo(calls, ".gitignore") :
          /\ ExampleGiven
          /\ k > 1
          /\ calls[k - 1].fn \in FetchFunctions
          /\ calls[k - 1].result = "resolved"
          /\ ~DownloadFailed)

\* the example brought its own .gitignore and normalization left it alone
C16_Witness ==
  /\ pc \in {"install", "tryGitInit"}
  /\ files[".gitignore"] = "fetched"
  /\ CopiesTo(calls, ".gitignore") = {}
  /\ Fetches # {}

(***************************************************************************)
(* C17.  After a successful example fetch next-env.d.ts is copied into     *)
(* the target directory if and only if tsconfig.json is present there,     *)
(* and the decision and the source of the copy (always the 'ts' template)  *)
(* are the same whether the request's typescript flag is true or false.    *)
(***************************************************************************)
\* the example path is past normalization
Normalized ==
  /\ ExampleGiven
  /\ pc \in {"install", "tryGitInit", "report", "done"} \/ Called("install")

C17_NextEnvIffTsconfig ==
  /\ Normalized =>
       IF files["tsconfig.json"] # Absent
       THEN /\ Cardinality(CopiesTo(calls, "next-env.d.ts")) = 1
            /\ files["next-env.d.ts"] =
                 "templates/" \o (IF request.experimentalApp THEN "app" ELSE "default")
                    \o "/ts/next-env.d.ts"
       ELSE /\ CopiesTo(calls, "next-env.d.ts") = {}
            /\ files["next-env.d.ts"] = Absent
  /\ \A k \in CopiesTo(calls, "next-env.d.ts") :
       \E i \in Fetches : i < k /\ calls[i].result = "resolved"
  /\ (ExampleGiven /\ ~Normalized) => CopiesTo(calls, "next-env.d.ts") = {}

\* a request for JavaScript whose example has a tsconfig.json
C17_Witness ==
  /\ Normalized
  /\ ~request.typescript
  /\ files["tsconfig.json"] = "fetched"
  /\ files["next-env.d.ts"] # Absent

(***************************************************************************)
(* C18.  When the example is not a URL and equals                          *)
(* '__internal-testing-retry', existsInRepo is skipped: the run goes       *)
(* straight to the preparation of the directory and then to the            *)
(* named-example fetch under the retry policy.  For every other example    *)
(* that is not a URL, existsInRepo is invoked exactly once, before any     *)
(* preparation of the directory.                                           *)
(***************************************************************************)
NamedExample == ExampleGiven /\ URLOrigin(request.example) = Undefined

C18_SentinelSkipsExistsInRepo ==
  /\ request.example = "__internal-testing-retry" =>
       /\ ~Called("existsInRepo")
       /\ pc \notin {"getRepoInfo", "hasRepo", "existsInRepo"}
       /\ calls # << >> => calls[1].fn = "isWriteable"
       /\ \A k \in Fetches :
            /\ calls[k].fn = "downloadAndExtractExample"
            /\ calls[k].arg = "__internal-testing-retry"
       /\ attempts <= 4
       /\ (pc = "fetch" /\ attempts > 0) =>
             (Len(errors) = attempts /\ attempts <= 3)
  /\ (NamedExample /\ request.example # "__internal-testing-retry") =>
       /\ Count("existsInRepo") <= 1
       /\ pc \notin {"start", "existsInRepo"} =>
            /\ Count("existsInRepo") = 1
            /\ calls[1] = [fn |-> "existsInRepo", arg |-> request.example,
                           result |-> calls[1].result]
       /\ pc = "start" => calls = << >>
       /\ pc = "existsInRepo" => calls = << >>

\* the sentinel's fetch is being retried without an existence check
C18_Witness ==
  /\ request.example = "__internal-testing-retry"
  /\ pc = "fetch" /\ attempts = 3
  /\ ~Called("existsInRepo")
  /\ Called("makeDir")

(***************************************************************************)
(* C19.  getOnline is invoked only when the package manager is yarn, at    *)
(* most once per run and only after the directory was confirmed empty;     *)
(* for npm and pnpm it is never invoked and isOnline is true; the          *)
(* resulting isOnline is what install or installTemplate is passed.        *)
(***************************************************************************)
\* the run is past line 131
OnlineKnown == Position(pc) >= 7 /\ pc # "exited"

\* what the connectivity probe returned, "true" when it was not consulted
Probed ==
  IF Called("getOnline")
  THEN calls[CHOOSE k \in Calls("getOnline") : TRUE].result
  ELSE "true"

C19_OnlineProbeOnlyForYarn ==
  /\ Count("getOnline") <= 1
  /\ \A k \in Calls("getOnline") :
       /\ request.packageManager = "yarn"
       /\ k > 1
       /\ calls[k - 1].fn = "isFolderEmpty" /\ calls[k - 1].result = "true"
  /\ request.packageManager \in {"npm", "pnpm"} =>
       /\ ~Called("getOnline") /\ pc # "getOnline"
       /\ OnlineKnown => isOnline
  /\ (request.packageManager = "yarn" /\ OnlineKnown) =>
       (Called("getOnline") /\ Probed = (IF isOnline THEN "true" ELSE "false"))
  /\ \A k \in Calls("install") \cup Calls("installTemplate") :
       calls[k].arg = Probed

\* yarn, offline: install is passed isOnline = false
C19_Witness ==
  /\ request.packageManager = "yarn"
  /\ \E k \in Calls("getOnline") : calls[k].result = "false"
  /\ \E k \in Calls("install") : calls[k].arg = "false"

(***************************************************************************)
(* C20.  makeDir and isFolderEmpty are each performed exactly once per     *)
(* run, before the first fetch attempt; they are not repeated and the      *)
(* directory is not cleared between retry attempts, so every retry runs    *)
(* against what the failed attempt before it left in the directory, with   *)
(* the same download function and the same arguments as the first.         *)
(***************************************************************************)
C20_RetriesShareDirectory ==
  /\ [][ (pc = "fetch" /\ pc' = "fetch") =>
           /\ attempts > 0 =>
                (calls'[Len(calls')].fn = calls[Len(calls)].fn
                   /\ calls'[Len(calls')].arg = calls[Len(calls)].arg)
           /\ \A f \in FileNames : files[f] # Absent => files'[f] = files[f]
           /\ dirCreated' = dirCreated /\ cwd' = cwd ]_vars
  /\ [](/\ Count("makeDir") <= 1 /\ Count("isFolderEmpty") <= 1
        /\ Fetches # {} =>
             /\ Count("makeDir") = 1 /\ Count("isFolderEmpty") = 1
             /\ \A k \in Fetches :
                  /\ \A i \in Calls("makeDir") \cup Calls("isFolderEmpty") : i < k
                  /\ \A j \in Fetches :
                       /\ calls[j].fn = calls[k].fn /\ calls[j].arg = calls[k].arg
                       /\ \A i \in j..k : i \in Fetches
             /\ Cardinality(Fetches) = attempts)

\* a third attempt starts on the partial files of the second
C20_Witness ==
  /\ pc = "fetch" /\ attempts = 2
  /\ files["sources"] = "partial"
  /\ repoInfo # Undefined
  /\ Count("makeDir") = 1
=============================================================================
